---- MODULE Spec2Model ----
(***************************************************************************)
(* ndnping / ndnpingserver.                                                *)
(*                                                                         *)
(* The client (src/ndnping.c) is one control loop: main alternates         *)
(* ndn_schedule_run (which runs do_ping when its event is due) with        *)
(* ndn_run (inside which the transport makes upcalls to incoming_content). *)
(* SIGINT runs handle_interrupt at any point of that execution, so do_ping *)
(* and the data branch of incoming_content are modelled statement by       *)
(* statement wherever the statistics record sta is written.                *)
(*                                                                         *)
(* The server (src/ndnpingserver.c) is the upcall incoming_interest with   *)
(* its validator ping_interest_valid.                                      *)
(*                                                                         *)
(* Locals hold a fixed value outside the call they belong to.             *)
(*                                                                         *)
(* Times are struct timeval values whose tv_usec is a multiple of 1000, so *)
(* that a round trip time in milliseconds is an integer.                   *)
(***************************************************************************)
EXTENDS Integers, Sequences, FiniteSets, TLC

\* ------------------------------------------------------------------ bounds
\* Largest -c count tried, and the cap on sent when no count is given.
MaxSent == 2
\* random() is drawn from 0..MaxRand.
MaxRand == 1
\* -n start numbers are drawn from 0..MaxStart.
MaxStart == 1
\* The wall clock takes the values 0, StepMs, ..., MaxClock * StepMs (in ms).
MaxClock == 2
StepMs == 600
\* Name components of the server's requests are at most MaxLen bytes long.
MaxLen == 2
\* The server's prefix has 1..MaxPrefix components, the ping component included.
MaxPrefix == 2
\* The server is followed for MaxReq requests.
MaxReq == 2

\* --------------------------------------------------------------- constants
INT_MAX == 2147483647

VARIABLES
    \* struct ndn_ping_client
    total,          \* client.total: -1 (no -c) or the -c count
    number,         \* client.number: -1 (random) or the next number
    sent,           \* client.sent
    received,       \* client.received
    table,          \* client.ndn_ping_table: key |-> [number, send_time]
    event,          \* client.event: "due", "waiting" or "none"
    \* struct ndn_ping_statistics sta
    sta,
    \* main
    pc,             \* position of the process
    res,            \* main's res: the last result of ndn_run
    \* do_ping's locals
    rnum,
    ping_res,
    \* main's option -n: -1 without it
    start,
    \* incoming_content's arguments and locals
    up,             \* [kind, key, interest] of the upcall being handled
    now,
    rtt,
    upres,          \* the last upcall's [kind, result] returned to the transport
    \* the collaborators
    pit,            \* the expressed interests the transport holds:
                    \* [name, number, sent_at], as they were expressed
    clock,          \* gettimeofday
    \* what the process has printed and how it ended
    reports,        \* the statistics blocks printed, in order
    printed,        \* the last line the upcall printed: [kind, number, rtt]
    failed,         \* the assertion that aborted the process, or "none"
    \* history
    exited,         \* the control loop of main has been left
    sendFailed,     \* do_ping has returned 0 after a failed expression
    timeouts,       \* timed-out notifications handled
    monotone,       \* the clock has never been set back
    \* struct ndn_ping_server, and what its transport has seen
    server,         \* [prefix_ncomps, count]
    wire            \* the last upcall [kind, req, put, result] and counts

vars == <<total, number, sent, received, table, event, sta, pc, res, rnum,
          ping_res, up, now, rtt, upres, pit, clock, reports, failed, exited,
          sendFailed, timeouts, monotone, server, wire, printed, start>>

\* ------------------------------------------------------------------- names
\* no upcall is being handled
NoInterest == [name |-> <<>>, number |-> -1, sent_at |-> [tv_sec |-> 0, tv_usec |-> 0]]

NoUpcall == [kind |-> "none", key |-> <<>>, interest |-> NoInterest]

\* nothing has been printed by the upcall
NoLine == [kind |-> "none", number |-> -1, rtt |-> 0]

\* no upcall has returned
NoResult == [kind |-> "none", result |-> "none"]

\* no interest has reached the server
NoRequest == [ncomps |-> 0, last |-> <<>>]

NoWire == [kind |-> "none", req |-> NoRequest, valid |-> 0, put |-> "none",
           result |-> "none", nreq |-> 0, nput |-> 0, delivered |-> 0,
           nvalid |-> 0]

DigitChars == <<"0", "1", "2", "3", "4", "5", "6", "7", "8", "9">>

\* sprintf(rnumstr, "%ld", rnum) for rnum >= 0
RECURSIVE DecStr(_)
DecStr(n) ==
    IF n < 10 THEN <<DigitChars[n + 1]>>
    ELSE DecStr(n \div 10) \o <<DigitChars[(n % 10) + 1]>>

\* client.prefix: the components of the URI (here one) and PING_COMPONENT
ClientPrefix == <<"name", "ping">>

\* the name do_ping builds: prefix + number component
PingName(n) == Append(ClientPrefix, DecStr(n))

\* the bytes add_ndn_ping_entry seeks: name->buf + 1, name->length - 2, every
\* component of the name without the enclosing element
AddKey_short(name) == SubSeq(name, 1, Len(name) - 1)

AddKey(name) == name

\* the bytes get/remove_ndn_ping_entry seek: B_Component0..E_LastPrefixComponent
\* of the interest, every component of its name
InterestKey(name) == name

\* -------------------------------------------------------------------- time
TimeZero == [tv_sec |-> 0, tv_usec |-> 0]

Millis(t) == t.tv_sec * 1000 + t.tv_usec \div 1000

TimeOfMillis(ms) == [tv_sec |-> ms \div 1000, tv_usec |-> (ms % 1000) * 1000]

\* rtt of incoming_content, in ms
Rtt_reversed(n, s) ==
    (s.tv_sec - n.tv_sec) * 1000 + (s.tv_usec - n.tv_usec) \div 1000

Rtt(n, s) == (n.tv_sec - s.tv_sec) * 1000 + (n.tv_usec - s.tv_usec) \div 1000

\* --------------------------------------------------------------------- sta
StaInit == [sent |-> 0, received |-> 0, min |-> INT_MAX, max |-> 0,
            tsum |-> 0, tsum2 |-> 0]

UpdateMin_never(s, r) == IF r > s.min THEN r ELSE s.min

UpdateMin(s, r) == IF r < s.min THEN r ELSE s.min

UpdateMax_wrong(s, r) == IF r < s.max THEN r ELSE s.max

UpdateMax(s, r) == IF r > s.max THEN r ELSE s.max

\* ------------------------------------------------------------------- table
HasEntry(k) == k \in DOMAIN table

WithEntry(k, e) == [x \in DOMAIN table \cup {k} |-> IF x = k THEN e ELSE table[x]]

WithoutEntry(k) == [x \in DOMAIN table \ {k} |-> table[x]]

EmptyTable == [x \in {} |-> 0]

\* get_ndn_ping_entry: the entry found under the key; were the table
\* read in order of arrival, the oldest entry would be found instead
get_ndn_ping_entry_oldest(k) ==
    LET first == CHOOSE o \in DOMAIN table :
                     \A q \in DOMAIN table :
                         Millis(table[o].send_time) <= Millis(table[q].send_time)
    IN table[first]

get_ndn_ping_entry(k) == table[k]

hashtb_n == Cardinality(DOMAIN table)

\* -------------------------------------------------------------------- Init
Init ==
    /\ total \in {-1} \cup (1..MaxSent)
    /\ number \in {-1} \cup (0..MaxStart)
    /\ start = number
    /\ sent = 0
    /\ received = 0
    /\ table = EmptyTable
    /\ event = "due"
    /\ sta = StaInit
    /\ pc = "loop"
    /\ res = 0
    /\ rnum = -1
    /\ ping_res = 0
    /\ up = NoUpcall
    /\ now = TimeZero
    /\ rtt = 0
    /\ upres = NoResult
    /\ printed = NoLine
    /\ pit = {}
    /\ clock = TimeZero
    /\ reports = <<>>
    /\ failed = "none"
    /\ exited = FALSE
    /\ sendFailed = FALSE
    /\ timeouts = 0
    /\ monotone = TRUE
    /\ server = [prefix_ncomps |-> 0, count |-> 0]
    /\ wire = NoWire

\* -------------------------------------------------------------------- main
\* the condition of main's while loop
LoopCond_noTable == res >= 0 /\ (total <= 0 \/ sent < total)

LoopCond == res >= 0 /\ (total <= 0 \/ sent < total \/ hashtb_n > 0)

\* the condition under which main calls ndn_schedule_run
MaySend == total <= 0 \/ sent < total

main_loop_enter ==
    /\ pc = "loop"
    /\ LoopCond
    /\ pc' = "sched"
    /\ UNCHANGED <<server, wire, printed, start, total, number, sent, received, table, event, sta, res, rnum,
                   ping_res, up, now, rtt, upres, pit, clock, reports, failed,
                   exited, sendFailed, timeouts, monotone>>

main_loop_exit ==
    /\ pc = "loop"
    /\ ~LoopCond
    /\ pc' = "destroy"
    /\ exited' = TRUE
    /\ UNCHANGED <<server, wire, printed, start, total, number, sent, received, table, event, sta, res, rnum,
                   ping_res, up, now, rtt, upres, pit, clock, reports, failed,
                   sendFailed, timeouts, monotone>>

\* ndn_schedule_run is skipped, or finds no event that is due
main_schedule_idle ==
    /\ pc = "sched"
    /\ ~(MaySend /\ event = "due")
    /\ pc' = "run"
    /\ UNCHANGED <<server, wire, printed, start, total, number, sent, received, table, event, sta, res, rnum,
                   ping_res, up, now, rtt, upres, pit, clock, reports, failed,
                   exited, sendFailed, timeouts, monotone>>

\* ----------------------------------------------------------------- do_ping
\* do_ping up to ndn_express_interest, which returns e
do_ping_express(e) ==
    /\ pc = "sched"
    /\ MaySend
    /\ event = "due"
    /\ IF total >= 0 /\ sent >= total
       THEN /\ event' = "none"
            /\ pc' = "run"
            /\ UNCHANGED <<number, rnum, ping_res, pit>>
       ELSE /\ \E r \in (IF number < 0 THEN 0..MaxRand ELSE {number}) :
                 /\ rnum' = r
                 /\ pit' = IF e >= 0
                            THEN pit \cup {[name |-> PingName(r), number |-> r,
                                            sent_at |-> clock]}
                            ELSE pit
            /\ number' = IF number < 0 THEN number ELSE number + 1
            /\ ping_res' = e
            /\ pc' = "ping_add"
            /\ event' = event
    /\ UNCHANGED <<server, wire, printed, start, total, sent, received, table, sta, res, up, now, rtt, upres,
                   clock, reports, failed, exited, sendFailed, timeouts,
                   monotone>>

\* add_ndn_ping_entry(client, name, rnum), with its assertion; do_ping
\* calls it whatever ndn_express_interest returned
add_ndn_ping_entry_unless_failed ==
    /\ pc = "ping_add"
    /\ LET key == AddKey(PingName(rnum)) IN
       IF HasEntry(key)
       THEN /\ pc' = "aborted"
            /\ failed' = "add"
            /\ table' = table
       ELSE /\ table' = IF ping_res >= 0
                        THEN WithEntry(key, [number |-> rnum, send_time |-> clock])
                        ELSE table
            /\ pc' = "ping_count"
            /\ failed' = failed
    /\ UNCHANGED <<server, wire, printed, start, total, number, sent, received, event, sta, res, rnum,
                   ping_res, up, now, rtt, upres, pit, clock, reports, exited,
                   sendFailed, timeouts, monotone>>

add_ndn_ping_entry ==
    /\ pc = "ping_add"
    /\ LET key == AddKey(PingName(rnum)) IN
       IF HasEntry(key)
       THEN /\ pc' = "aborted"
            /\ failed' = "add"
            /\ table' = table
       ELSE /\ table' = WithEntry(key, [number |-> rnum, send_time |-> clock])
            /\ pc' = "ping_count"
            /\ failed' = failed
    /\ UNCHANGED <<server, wire, printed, start, total, number, sent, received, event, sta, res, rnum,
                   ping_res, up, now, rtt, upres, pit, clock, reports, exited,
                   sendFailed, timeouts, monotone>>

\* what do_ping returns to the scheduler: the next delay, or 0 for no more
PingReschedule_always(r) == "waiting"

PingReschedule(r) == IF r >= 0 THEN "waiting" ELSE "none"

SentAfter_forgotten(n) == n

SentAfter(n) == n + 1

\* client->sent ++; sta.sent ++; and the return of do_ping
do_ping_return ==
    /\ pc = "ping_count"
    /\ sent' = SentAfter(sent)
    /\ sta' = [sta EXCEPT !.sent = @ + 1]
    /\ event' = PingReschedule(ping_res)
    /\ sendFailed' = (sendFailed \/ ping_res < 0)
    /\ rnum' = -1
    /\ ping_res' = 0
    /\ pc' = "run"
    /\ UNCHANGED <<server, wire, printed, start, total, number, received, table, res, up, now, rtt, upres,
                   pit, clock, reports, failed, exited, timeouts, monotone>>

\* ----------------------------------------------------------------- ndn_run
\* Inside ndn_run the transport makes an upcall for an interest it holds:
\* the data that satisfies it, or its timeout. Either way it drops the
\* interest. incoming_content starts by reading the clock.
ndn_run_upcall(kind) ==
    /\ pc = "run"
    /\ \E i \in pit :
         /\ pit' = pit \ {i}
         /\ up' = [kind |-> kind, key |-> InterestKey(i.name), interest |-> i]
    /\ now' = clock
    /\ pc' = IF kind = "CONTENT" THEN "content" ELSE "timed_out"
    /\ UNCHANGED <<server, wire, printed, start, total, number, sent, received, table, event, sta, res, rnum,
                   ping_res, rtt, upres, clock, reports, failed, exited,
                   sendFailed, timeouts, monotone>>

\* case NDN_UPCALL_CONTENT: client->received ++; sta.received ++;
incoming_content_received ==
    /\ pc = "content"
    /\ received' = received + 1
    /\ sta' = [sta EXCEPT !.received = @ + 1]
    /\ pc' = "get"
    /\ UNCHANGED <<server, wire, printed, start, total, number, sent, table, event, res, rnum, ping_res, up,
                   now, rtt, upres, pit, clock, reports, failed, exited,
                   sendFailed, timeouts, monotone>>

\* entry = get_ndn_ping_entry(...), with its assertion; rtt = ...
incoming_content_get ==
    /\ pc = "get"
    /\ IF HasEntry(up.key)
       THEN /\ rtt' = Rtt(now, get_ndn_ping_entry(up.key).send_time)
            /\ pc' = "min"
            /\ failed' = failed
       ELSE /\ pc' = "aborted"
            /\ failed' = "get"
            /\ rtt' = rtt
    /\ UNCHANGED <<server, wire, printed, start, total, number, sent, received, table, event, sta, res, rnum,
                   ping_res, up, now, upres, pit, clock, reports, exited,
                   sendFailed, timeouts, monotone>>

\* if (rtt < sta.min) sta.min = rtt;
incoming_content_min ==
    /\ pc = "min"
    /\ sta' = [sta EXCEPT !.min = UpdateMin(sta, rtt)]
    /\ pc' = "max"
    /\ UNCHANGED <<server, wire, printed, start, total, number, sent, received, table, event, res, rnum,
                   ping_res, up, now, rtt, upres, pit, clock, reports, failed,
                   exited, sendFailed, timeouts, monotone>>

\* if (rtt > sta.max) sta.max = rtt;
incoming_content_max ==
    /\ pc = "max"
    /\ sta' = [sta EXCEPT !.max = UpdateMax(sta, rtt)]
    /\ pc' = "tsum"
    /\ UNCHANGED <<server, wire, printed, start, total, number, sent, received, table, event, res, rnum,
                   ping_res, up, now, rtt, upres, pit, clock, reports, failed,
                   exited, sendFailed, timeouts, monotone>>

\* sta.tsum += rtt;
incoming_content_tsum ==
    /\ pc = "tsum"
    /\ sta' = [sta EXCEPT !.tsum = @ + rtt]
    /\ pc' = "tsum2"
    /\ UNCHANGED <<server, wire, printed, start, total, number, sent, received, table, event, res, rnum,
                   ping_res, up, now, rtt, upres, pit, clock, reports, failed,
                   exited, sendFailed, timeouts, monotone>>

\* sta.tsum2 += rtt * rtt;
incoming_content_tsum2 ==
    /\ pc = "tsum2"
    /\ sta' = [sta EXCEPT !.tsum2 = @ + rtt * rtt]
    /\ pc' = "remove"
    /\ UNCHANGED <<server, wire, printed, start, total, number, sent, received, table, event, res, rnum,
                   ping_res, up, now, rtt, upres, pit, clock, reports, failed,
                   exited, sendFailed, timeouts, monotone>>

\* remove_ndn_ping_entry(...), with its assertion; return NDN_UPCALL_RESULT_OK
incoming_content_remove ==
    /\ pc = "remove"
    /\ IF HasEntry(up.key)
       THEN /\ printed' = [kind |-> "content",
                            number |-> get_ndn_ping_entry(up.key).number,
                            rtt |-> rtt]
            /\ table' = WithoutEntry(up.key)
            /\ upres' = [kind |-> up.kind, result |-> "OK"]
            /\ up' = NoUpcall
            /\ now' = TimeZero
            /\ rtt' = 0
            /\ pc' = "run"
            /\ failed' = failed
       ELSE /\ pc' = "aborted"
            /\ failed' = "remove"
            /\ UNCHANGED <<printed, table, upres, up, now, rtt>>
    /\ UNCHANGED <<server, wire, start, total, number, sent, received, event, sta, res, rnum,
                   ping_res, pit, clock, reports, exited, sendFailed, timeouts,
                   monotone>>

\* case NDN_UPCALL_INTEREST_TIMED_OUT: get, print, remove; nothing is
\* counted
incoming_content_timed_out_counted ==
    /\ pc = "timed_out"
    /\ IF HasEntry(up.key)
       THEN /\ printed' = [kind |-> "timeout",
                            number |-> get_ndn_ping_entry(up.key).number,
                            rtt |-> 0]
            /\ table' = WithoutEntry(up.key)
            /\ timeouts' = timeouts + 1
            /\ received' = received + 1
            /\ sta' = [sta EXCEPT !.received = @ + 1]
            /\ upres' = [kind |-> up.kind, result |-> "OK"]
            /\ up' = NoUpcall
            /\ now' = TimeZero
            /\ pc' = "run"
            /\ failed' = failed
       ELSE /\ pc' = "aborted"
            /\ failed' = "get"
            /\ UNCHANGED <<printed, table, timeouts, upres, up, now, received, sta>>
    /\ UNCHANGED <<server, wire, start, total, number, sent, event, res, rnum,
                   ping_res, rtt, pit, clock, reports, exited, sendFailed,
                   monotone>>

incoming_content_timed_out ==
    /\ pc = "timed_out"
    /\ IF HasEntry(up.key)
       THEN /\ printed' = [kind |-> "timeout",
                            number |-> get_ndn_ping_entry(up.key).number,
                            rtt |-> 0]
            /\ table' = WithoutEntry(up.key)
            /\ timeouts' = timeouts + 1
            /\ upres' = [kind |-> up.kind, result |-> "OK"]
            /\ up' = NoUpcall
            /\ now' = TimeZero
            /\ pc' = "run"
            /\ failed' = failed
       ELSE /\ pc' = "aborted"
            /\ failed' = "get"
            /\ UNCHANGED <<printed, table, timeouts, upres, up, now>>
    /\ UNCHANGED <<server, wire, start, total, number, sent, received, event, sta, res, rnum,
                   ping_res, rtt, pit, clock, reports, exited, sendFailed,
                   monotone>>

\* what incoming_content returns for a kind that is neither data nor a
\* timeout: NDN_UPCALL_FINAL breaks out of the switch to the closing
\* return NDN_UPCALL_RESULT_OK, the default case returns the error
OtherResult_ignored(kind) == "OK"

OtherResult(kind) == IF kind = "FINAL" THEN "OK" ELSE "ERR"

\* case NDN_UPCALL_FINAL, and the default case, which returns an error
incoming_content_other(kind) ==
    /\ pc = "run"
    /\ upres' = [kind |-> kind, result |-> OtherResult(kind)]
    /\ UNCHANGED <<server, wire, printed, start, total, number, sent, received, table, event, sta, pc, res,
                   rnum, ping_res, up, now, rtt, pit, clock, reports, failed,
                   exited, sendFailed, timeouts, monotone>>

\* res = ndn_run(client.h, 10)
ndn_run_return(r) ==
    /\ pc = "run"
    /\ res' = r
    /\ pc' = "loop"
    /\ UNCHANGED <<server, wire, printed, start, total, number, sent, received, table, event, sta, rnum,
                   ping_res, up, now, rtt, upres, pit, clock, reports, failed,
                   exited, sendFailed, timeouts, monotone>>

\* ------------------------------------------------------------- environment
\* time passes while ndn_run waits
clock_advance ==
    /\ pc = "run"
    /\ Millis(clock) < MaxClock * StepMs
    /\ clock' = TimeOfMillis(Millis(clock) + StepMs)
    /\ UNCHANGED <<server, wire, printed, start, total, number, sent, received, table, event, sta, pc, res,
                   rnum, ping_res, up, now, rtt, upres, pit, reports, failed,
                   exited, sendFailed, timeouts, monotone>>

\* gettimeofday is the wall clock: it can be set back
clock_set_back ==
    /\ pc = "run"
    /\ Millis(clock) >= StepMs
    /\ clock' = TimeOfMillis(Millis(clock) - StepMs)
    /\ monotone' = FALSE
    /\ UNCHANGED <<server, wire, printed, start, total, number, sent, received, table, event, sta, pc, res,
                   rnum, ping_res, up, now, rtt, upres, pit, reports, failed,
                   exited, sendFailed, timeouts>>

\* the delay do_ping returned has passed: its event is due again
interval_elapses ==
    /\ pc = "run"
    /\ event = "waiting"
    /\ sent < MaxSent
    /\ event' = "due"
    /\ UNCHANGED <<server, wire, printed, start, total, number, sent, received, table, sta, pc, res, rnum,
                   ping_res, up, now, rtt, upres, pit, clock, reports, failed,
                   exited, sendFailed, timeouts, monotone>>

\* ------------------------------------------------------------ the reports
\* double lost = (double)(sta.sent - sta.received) * 100 / sta.sent; the
\* quotient is kept as a fraction
lost_of_received(s) == [num |-> s.received * 100, den |-> s.sent]

lost(s) == [num |-> (s.sent - s.received) * 100, den |-> s.sent]

\* with sta.sent = 0 the line that shows the loss is not printed
NoLoss == [num |-> 0, den |-> 0]

\* print_statistics prints from sta
print_statistics ==
    Append(reports, [sent |-> sta.sent, received |-> sta.received,
                     lost |-> IF sta.sent > 0 THEN lost(sta) ELSE NoLoss,
                     min |-> sta.min, max |-> sta.max,
                     tsum |-> sta.tsum, tsum2 |-> sta.tsum2])

Running == pc \notin {"done", "killed", "aborted"}

\* SIGINT: print_statistics(); then the default action kills the process
handle_interrupt ==
    /\ Running
    /\ reports' = print_statistics
    /\ pc' = "killed"
    /\ UNCHANGED <<server, wire, printed, start, total, number, sent, received, table, event, sta, res, rnum,
                   ping_res, up, now, rtt, upres, pit, clock, failed, exited,
                   sendFailed, timeouts, monotone>>

\* after the loop: the destroys and print_statistics()
main_report ==
    /\ pc = "destroy"
    /\ reports' = print_statistics
    /\ pc' = "printed"
    /\ UNCHANGED <<server, wire, printed, start, total, number, sent, received, table, event, sta, res, rnum,
                   ping_res, up, now, rtt, upres, pit, clock, failed, exited,
                   sendFailed, timeouts, monotone>>

\* return 0
main_return ==
    /\ pc = "printed"
    /\ pc' = "done"
    /\ UNCHANGED <<server, wire, printed, start, total, number, sent, received, table, event, sta, res, rnum,
                   ping_res, up, now, rtt, upres, pit, clock, reports, failed,
                   exited, sendFailed, timeouts, monotone>>

\* -------------------------------------------------------------------- Spec
Next ==
    \/ main_loop_enter
    \/ main_loop_exit
    \/ main_schedule_idle
    \/ do_ping_express(0)
    \/ do_ping_express(-1)
    \/ add_ndn_ping_entry
    \/ do_ping_return
    \/ ndn_run_upcall("CONTENT")
    \/ ndn_run_upcall("TIMED_OUT")
    \/ incoming_content_received
    \/ incoming_content_get
    \/ incoming_content_min
    \/ incoming_content_max
    \/ incoming_content_tsum
    \/ incoming_content_tsum2
    \/ incoming_content_remove
    \/ incoming_content_timed_out
    \/ incoming_content_other("FINAL")
    \/ incoming_content_other("UNEXPECTED")
    \/ ndn_run_return(0)
    \/ ndn_run_return(-1)
    \/ clock_advance
    \/ clock_set_back
    \/ interval_elapses
    \/ handle_interrupt
    \/ main_report
    \/ main_return

Spec == Init /\ [][Next]_vars

\* ================================================================= server
NUL == "NUL"

\* the bytes a name component is made of here
Alphabet == {"0", "4", "x", "-", "+", " ", NUL}

RECURSIVE SeqsUpTo(_)
SeqsUpTo(n) ==
    IF n = 0 THEN {<<>>}
    ELSE LET shorter == SeqsUpTo(n - 1) IN
         shorter \cup {Append(c, a) : c \in {x \in shorter : Len(x) = n - 1},
                                      a \in Alphabet}

Components == SeqsUpTo(MaxLen)

PING_COMPONENT == <<"p", "i", "n", "g">>

IsDigit(c) == \E i \in 1..10 : DigitChars[i] = c

DigitVal(c) == (CHOOSE i \in 1..10 : DigitChars[i] = c) - 1

\* The C string at the start of a component's bytes: the bytes before the
\* first zero byte. The element's closer (a zero byte) follows the bytes of
\* the component, so the string ends there at the latest.
RECURSIVE CString(_)
CString(b) ==
    IF b = <<>> \/ Head(b) = NUL THEN <<>>
    ELSE <<Head(b)>> \o CString(Tail(b))

\* the index of the first byte of s at or after i that is not white space
RECURSIVE SkipSpace(_, _)
SkipSpace(s, i) ==
    IF i <= Len(s) /\ s[i] = " " THEN SkipSpace(s, i + 1) ELSE i

\* the index of the first byte of s at or after i that is no digit
RECURSIVE SkipDigits(_, _)
SkipDigits(s, i) ==
    IF i <= Len(s) /\ IsDigit(s[i]) THEN SkipDigits(s, i + 1) ELSE i

\* the value of the digits s[i..j-1]
RECURSIVE DigitsValue(_, _, _)
DigitsValue(s, i, j) ==
    IF j <= i THEN 0
    ELSE DigitsValue(s, i, j - 1) * 10 + DigitVal(s[j - 1])

\* strtol(s, &end, 10): white space, an optional sign, digits. With no digit
\* nothing is converted: the value is 0 and end is the start of s. end =
\* Len(s) + 1 is the terminating zero byte. (Values here are far from
\* LONG_MAX, where strtol saturates.)
strtol(s) ==
    LET a == SkipSpace(s, 1)
        signed == a <= Len(s) /\ s[a] \in {"+", "-"}
        d == IF signed THEN a + 1 ELSE a
        e == SkipDigits(s, d)
        v == DigitsValue(s, d, e)
    IN  IF e = d THEN [number |-> 0, end |-> 1]
        ELSE [number |-> IF signed /\ s[a] = "-" THEN 0 - v ELSE v, end |-> e]

\* int ping_interest_valid(prefix, interest_msg, pi): r is the parsed
\* interest, [ncomps: pi->prefix_comps, last: the bytes of its last component]
ping_interest_valid(prefix_ncomps, r) ==
    IF r.ncomps = prefix_ncomps + 1 \/ r.ncomps = prefix_ncomps + 2
    THEN LET s == CString(r.last)
             p == strtol(s)
         IN  IF p.end = Len(s) + 1 /\ p.number >= 0 THEN 1 ELSE 0
    ELSE 0

\* The interests the filter on the prefix passes to incoming_interest: the
\* prefix itself, or the prefix and one to three more components.
Requests(n) ==
    {[ncomps |-> n, last |-> PING_COMPONENT]}
    \cup [ncomps : (n + 1)..(n + 3), last : Components]

ServerInit ==
    /\ server \in [prefix_ncomps : 1..MaxPrefix, count : {0}]
    /\ wire = NoWire
    /\ total = -1
    /\ number = -1
    /\ start = -1
    /\ sent = 0
    /\ received = 0
    /\ table = EmptyTable
    /\ event = "none"
    /\ sta = StaInit
    /\ pc = "server"
    /\ res = 0
    /\ rnum = -1
    /\ ping_res = 0
    /\ up = NoUpcall
    /\ now = TimeZero
    /\ rtt = 0
    /\ upres = NoResult
    /\ printed = NoLine
    /\ pit = {}
    /\ clock = TimeZero
    /\ reports = <<>>
    /\ failed = "none"
    /\ exited = FALSE
    /\ sendFailed = FALSE
    /\ timeouts = 0
    /\ monotone = TRUE

clientVars == <<total, number, sent, received, table, event, sta, pc, res,
                rnum, ping_res, up, now, rtt, upres, pit, clock, reports,
                failed, exited, sendFailed, timeouts, monotone, printed,
                start>>

\* case NDN_UPCALL_INTEREST of incoming_interest, for the interest r when
\* ndn_put returns putres
incoming_interest(r, putres) ==
    /\ pc = "server"
    /\ wire.nreq < MaxReq
    /\ r \in Requests(server.prefix_ncomps)
    /\ IF ping_interest_valid(server.prefix_ncomps, r) = 1
       THEN /\ server' = [server EXCEPT !.count = @ + 1]
            /\ wire' = [wire EXCEPT
                   !.kind = "INTEREST",
                   !.req = r,
                   !.valid = 1,
                   !.put = IF putres >= 0 THEN "ok" ELSE "failed",
                   !.nreq = @ + 1,
                   !.nput = @ + 1,
                   !.delivered = IF putres >= 0 THEN @ + 1 ELSE @,
                   !.nvalid = @ + 1,
                   !.result = IF putres >= 0 THEN "INTEREST_CONSUMED" ELSE "OK"]
       ELSE /\ server' = server
            /\ wire' = [wire EXCEPT
                   !.kind = "INTEREST",
                   !.req = r,
                   !.valid = 0,
                   !.put = "none",
                   !.nreq = @ + 1,
                   !.result = "OK"]
    /\ UNCHANGED clientVars

\* case NDN_UPCALL_FINAL and the default case of incoming_interest
incoming_interest_other ==
    /\ pc = "server"
    /\ wire.kind # "OTHER"
    /\ wire' = [wire EXCEPT !.kind = "OTHER", !.req = NoRequest,
                            !.valid = 0, !.put = "none",
                            !.result = "OK"]
    /\ UNCHANGED server
    /\ UNCHANGED clientVars

ServerNext ==
    \/ \E r \in Requests(server.prefix_ncomps) : incoming_interest(r, 0)
    \/ \E r \in Requests(server.prefix_ncomps) : incoming_interest(r, -1)
    \/ incoming_interest_other

ServerSpec == ServerInit /\ [][ServerNext]_vars

\* ================================================================ liveness
\* A run with a -c count in which every expression and every ndn_run
\* succeeds and nobody interrupts. main's own steps are taken when they can
\* be (WF); the delay of do_ping passes, and the transport answers or times
\* out every interest it holds, whenever ndn_run is entered again and again
\* (SF: both happen only inside ndn_run).
LiveInit == Init /\ total > 0

ProgramStep ==
    \/ main_loop_enter
    \/ main_loop_exit
    \/ main_schedule_idle
    \/ do_ping_express(0)
    \/ add_ndn_ping_entry
    \/ do_ping_return
    \/ incoming_content_received
    \/ incoming_content_get
    \/ incoming_content_min
    \/ incoming_content_max
    \/ incoming_content_tsum
    \/ incoming_content_tsum2
    \/ incoming_content_remove
    \/ incoming_content_timed_out
    \/ ndn_run_return(0)
    \/ main_report
    \/ main_return

Notification == ndn_run_upcall("CONTENT") \/ ndn_run_upcall("TIMED_OUT")

LiveNext ==
    \/ ProgramStep
    \/ Notification
    \/ interval_elapses
    \/ clock_advance

LiveSpec ==
    /\ LiveInit
    /\ [][LiveNext]_vars
    /\ WF_vars(ProgramStep)
    /\ SF_vars(Notification)
    /\ SF_vars(interval_elapses)

\* The same run when ndn_express_interest may also report a failure: every
\* other step of the transport succeeds, and every interest it did accept is
\* answered or times out.
FailProgramStep ==
    \/ ProgramStep
    \/ do_ping_express(-1)

LiveFailNext ==
    \/ FailProgramStep
    \/ Notification
    \/ interval_elapses
    \/ clock_advance

LiveFailSpec ==
    /\ LiveInit
    /\ [][LiveFailNext]_vars
    /\ WF_vars(FailProgramStep)
    /\ SF_vars(Notification)
    /\ SF_vars(interval_elapses)

\* ================================================================== claims
\* No tick and no upcall of the client is in progress.
Quiescent == pc \in {"loop", "sched", "run", "destroy", "printed", "done"}

\* ---------------------------------------------------------------------- C1
\* C1: in a run with a -c count N, neither client.sent nor sta.sent ever
\* exceeds N, whatever the order of ticks, data and timeouts.
C1_SentAtMostTotal == total > 0 => (sent <= total /\ sta.sent <= total)

\* The scheduler finds do_ping due when N requests have been emitted, one of
\* them still pending.
C1_Witness ==
    total > 0 /\ sent = total /\ pc = "sched" /\ event = "due" /\ hashtb_n > 0

\* ---------------------------------------------------------------------- C2
\* C2, as claimed: with a -c count N the control loop of main is left only
\* when sent = N and the table is empty, whatever the transport returns.
C2_ExitOnlyWhenDrained ==
    (exited /\ total > 0) => (sent = total /\ hashtb_n = 0)

\* C2, amended: with a -c count N the control loop of main is left only when
\* the last ndn_run returned a negative result, or sent = N and the table is
\* empty.
C2_ExitOnlyWhenDrainedOrRunFailed ==
    (exited /\ total > 0) => (res < 0 \/ (sent = total /\ hashtb_n = 0))

\* The loop is left after ndn_run succeeded, every request answered.
C2_Witness ==
    exited /\ total > 0 /\ res >= 0 /\ sent = total /\ received + timeouts = sent

\* ---------------------------------------------------------------------- C3
\* C3: every entry a send creates is removed once, by the data or the
\* timeout of its request: no key is looked up or removed when it is not in
\* the table, so the assertions res == HT_OLD_ENTRY never fail.
C3_LookupsFindTheirEntry == failed \notin {"get", "remove"}

\* Two requests were emitted, one was answered and one timed out, and both
\* entries are gone.
C3_Witness ==
    pc = "run" /\ sent = 2 /\ received = 1 /\ timeouts = 1 /\ hashtb_n = 0

\* ---------------------------------------------------------------------- C4
\* C4: after every completed tick and every completed upcall, received <=
\* sent (in the client and in sta) and, when something was received, sta.min
\* <= sta.max.
C4_StatisticsInvariant ==
    Quiescent =>
        /\ received <= sent
        /\ sta.received <= sta.sent
        /\ (sta.received > 0 => sta.min <= sta.max)

\* Two answers with different round trip times have been recorded.
C4_Witness == pc = "run" /\ sta.received = 2 /\ sta.min < sta.max

\* ---------------------------------------------------------------------- C5
\* min <= sum / received <= max, for a statistics block r with received > 0
WellOrdered(r) ==
    /\ r.min <= r.tsum \div r.received
    /\ r.tsum <= r.max * r.received

\* C5: every statistics block printed, the one handle_interrupt prints
\* included, shows received <= sent and, when received > 0, min <= average
\* <= max.
C5_ReportsAreConsistent ==
    \A i \in 1..Len(reports) :
        /\ reports[i].received <= reports[i].sent
        /\ (reports[i].received > 0 => WellOrdered(reports[i]))

\* ---------------------------------------------------------------------- C6
\* every byte of the component is a decimal digit, and there is one at least
StrictDecimal(c) == c # <<>> /\ \A i \in 1..Len(c) : IsDigit(c[i])

\* the request name shape: prefix, an optional identifier, a sequence number
StrictValid(n, r) ==
    /\ r.ncomps = n + 1 \/ r.ncomps = n + 2
    /\ StrictDecimal(r.last)

\* C6: ping_interest_valid reports a request valid if and only if it has N+1
\* or N+2 components and its last component is nothing but decimal digits.
C6_ValidIffStrictDecimal ==
    wire.kind = "INTEREST" =>
        (wire.valid = 1 <=> StrictValid(server.prefix_ncomps, wire.req))

\* ---------------------------------------------------------------------- C7
\* C7: when ndn_put fails the counter is not incremented and the interest is
\* not reported consumed: the counter is the number of responses delivered.
C7_CountIsDelivered ==
    /\ server.count = wire.delivered
    /\ (wire.put = "failed" => wire.result # "INTEREST_CONSUMED")

\* ---------------------------------------------------------------------- C8
\* C8: when ndn_put succeeds, a valid request is answered by one put, counted
\* once and reported consumed; an invalid request (wrong component count or
\* a last component that is no decimal number) is not answered, not counted
\* and not reported consumed.
C8_OneResponsePerValidRequest ==
    [][(wire'.nreq = wire.nreq + 1 /\ wire'.put # "failed") =>
        IF StrictValid(server.prefix_ncomps, wire'.req)
        THEN /\ server'.count = server.count + 1
             /\ wire'.nput = wire.nput + 1
             /\ wire'.result = "INTEREST_CONSUMED"
        ELSE /\ server'.count = server.count
             /\ wire'.nput = wire.nput
             /\ wire'.result = "OK"]_vars

\* The same with "valid" read as what ping_interest_valid reports.
C8_OneResponsePerAcceptedRequest ==
    [][(wire'.nreq = wire.nreq + 1 /\ wire'.put # "failed") =>
        IF ping_interest_valid(server.prefix_ncomps, wire'.req) = 1
        THEN /\ server'.count = server.count + 1
             /\ wire'.nput = wire.nput + 1
             /\ wire'.result = "INTEREST_CONSUMED"
        ELSE /\ server'.count = server.count
             /\ wire'.nput = wire.nput
             /\ wire'.result = "OK"]_vars

\* ---------------------------------------------------------------------- C9
\* C9: a run with a -c count N, in which every expression and every ndn_run
\* succeeds and every interest is answered or times out, reaches sent = N
\* with an empty table, leaves the control loop and prints its statistics.
C9_EventuallyDrainedAndReported ==
    <>(pc = "done" /\ sent = total /\ hashtb_n = 0 /\ Len(reports) = 1)

\* The same for the runs started with -n.
C9_IncrementingModeTerminates ==
    (number >= 0) => C9_EventuallyDrainedAndReported

\* --------------------------------------------------------------------- C10
\* C10: once do_ping has returned after a failed expression, its event is
\* never scheduled again and sent never increases; the process is not
\* aborted, the control loop is not left while entries are pending (unless
\* ndn_run fails), and an upcall for a pending entry still finds its entry,
\* counts the data and removes the entry.
C10_SendFailureStopsSendingOnly ==
    [][sendFailed =>
        /\ event' = "none"
        /\ sent' = sent
        /\ sta'.sent = sta.sent
        /\ pc' # "aborted"
        /\ (pc = "loop" /\ res >= 0 /\ hashtb_n > 0 => pc' # "destroy")
        /\ (pc = "content" /\ pc' = "get" =>
                sta'.received = sta.received + 1)
        /\ (pc \in {"remove", "timed_out"} /\ pc' = "run" =>
                HasEntry(up.key) /\ table' = WithoutEntry(up.key))]_vars

\* After the failure, the data of an earlier request is being handled.
C10_Witness == sendFailed /\ pc = "remove" /\ HasEntry(up.key)

\* --------------------------------------------------------------------- C11
\* C11: a notification is resolved against the entry of the request it
\* answers, whatever the order of the notifications: the line printed shows
\* the number that request was expressed with, the round-trip time of data
\* is measured from the time it was expressed, and the entry of that request
\* is the only one removed.
C11_ResolvedByName ==
    [][(pc \in {"remove", "timed_out"} /\ pc' = "run") =>
        /\ printed'.number = up.interest.number
        /\ (pc = "remove" =>
                printed'.rtt = Rtt(now, up.interest.sent_at))
        /\ DOMAIN table' = DOMAIN table \ {up.interest.name}
        /\ \A k \in DOMAIN table' : table'[k] = table[k]]_vars

\* The data of a request is being handled while an older request is still
\* pending.
C11_Witness ==
    /\ pc = "remove"
    /\ \E k \in DOMAIN table :
         /\ k # up.interest.name
         /\ Millis(table[k].send_time) < Millis(up.interest.sent_at)

\* --------------------------------------------------------------------- C12
\* C12: an upcall of a kind that is neither data, a timeout nor the
\* finalization returns the error result, the finalization returns OK, and
\* neither changes the table, the counters or the statistics.
C12_OtherKindsChangeNothing ==
    [][(upres' # upres /\ upres'.kind \notin {"CONTENT", "TIMED_OUT"}) =>
        /\ upres'.result = IF upres'.kind = "FINAL" THEN "OK" ELSE "ERR"
        /\ table' = table
        /\ sta' = sta
        /\ sent' = sent
        /\ received' = received]_vars

\* An unexpected upcall has been answered with the error while a request is
\* pending and data has been counted.
C12_Witness ==
    /\ upres = [kind |-> "UNEXPECTED", result |-> "ERR"]
    /\ hashtb_n > 0
    /\ sta.received > 0

C14_LossIsAPercentage ==
    \A i \in 1..Len(reports) :
        LET r == reports[i] IN
        r.sent > 0 =>
            /\ r.lost.num * r.sent = (r.sent - r.received) * 100 * r.lost.den
            /\ 0 <= r.lost.num
            /\ r.lost.num <= 100 * r.lost.den

\* main has reported one answer to two requests: a loss of 50%.
C14_Witness ==
    /\ pc = "done"
    /\ reports[1].sent = 2
    /\ reports[1].received = 1
    /\ reports[1].lost.num = 50 * reports[1].lost.den

\* --------------------------------------------------------------------- C15
\* C15: as long as the clock was never set back, the round-trip time
\* computed for data is never negative, in the handler and in the line it
\* prints.
C15_RttNeverNegative ==
    monotone =>
        /\ (pc \in {"min", "max", "tsum", "tsum2", "remove"} => rtt >= 0)
        /\ printed.rtt >= 0

\* A round-trip time has been computed across a second boundary: the
\* microseconds of the arrival are below those of the send time.
C15_Witness ==
    /\ monotone
    /\ pc = "min"
    /\ now.tv_usec < up.interest.sent_at.tv_usec
    /\ rtt > 0

\* --------------------------------------------------------------------- C16
\* C16: a run never prints the statistics twice, and a run that has ended,
\* by returning from main or by the interrupt, has printed them once.
C16_ReportedExactlyOnce ==
    /\ Len(reports) <= 1
    /\ (pc \in {"done", "killed"} => Len(reports) = 1)

\* --------------------------------------------------------------------- C17
\* C17: do_ping never calls add_ndn_ping_entry with a key that is still in
\* the table, so the assertion of a new entry never fails.
C17_NeverAddsALiveKey ==
    /\ (pc = "ping_add" => ~HasEntry(AddKey(PingName(rnum))))
    /\ failed # "add"

\* The same for the runs started with -n.
C17_IncrementingModeNeverAddsALiveKey ==
    (start >= 0) => C17_NeverAddsALiveKey

\* --------------------------------------------------------------------- C18
\* A step of a tick of do_ping does its part of one emission.
TickEmitsOnce ==
    /\ (pc = "sched" /\ pc' = "ping_add") =>
            /\ Cardinality(pit') <= Cardinality(pit) + 1
            /\ (start >= 0 => rnum' = start + sent)
    /\ (pc = "ping_add" /\ pc' \notin {"ping_add", "killed"}) =>
            /\ hashtb_n' = hashtb_n + 1
            /\ DOMAIN table' = DOMAIN table \cup {PingName(rnum)}
    /\ (pc = "ping_count" /\ pc' \notin {"ping_count", "killed"}) =>
            /\ sent' = sent + 1
            /\ sta'.sent = sta.sent + 1

\* C18: a tick of do_ping expresses one request, then adds exactly one
\* entry, the one of that request, then increases sent by exactly one; with
\* -n n, the k-th request carries the number n + k - 1.
C18_EveryTickEmitsOnce == [][TickEmitsOnce]_vars

\* The same for the runs started with -n.
C18_IncrementingModeEmitsOnce == [][start >= 0 => TickEmitsOnce]_vars

C21_TerminatesAfterSendFailure ==
    sendFailed ~> (exited /\ Len(reports) = 1)

\* Without a failed expression the run with -n does end: the loop is left
\* and the statistics are printed.
C21_TerminatesWithoutSendFailure ==
    [](start >= 0 => <>(sendFailed \/ (exited /\ Len(reports) = 1)))

\* The entry added for the request that failed is never removed.
C21_FailedEntryStays ==
    [][sendFailed => hashtb_n' >= 1 /\ pc' # "destroy"]_vars

====
